---------------------------- MODULE Spec2Model ----------------------------
(***************************************************************************)
(* A model of src/RR_weak_mutation.py: sequence evolution on a Russian     *)
(* roulette holey fitness landscape (Genotype, Population, Orr) and the    *)
(* two process-wide dictionaries viability_dict and nu_dict.               *)
(*                                                                         *)
(* Conventions.                                                            *)
(*  - A sequence (a str of '0'/'1') is a tuple of alleles 0/1.  Sites are  *)
(*    0-indexed as in the source: the allele at site i is seq[i + 1].      *)
(*  - Probabilities and random draws are kept in quarters: p = 0, 0.5, 1.0 *)
(*    are 0, 2, 4 and rnd.random() returns 0.25 or 0.75 (1 or 3), so that  *)
(*    `rand < self.p` has both outcomes for p = 0.5, never holds for       *)
(*    p = 0 and always holds for p = 1.                                    *)
(*  - nu = len(viable) / L is kept as the exact fraction <<len(viable),L>>.*)
(*  - A dict is a function on the set of its keys.                         *)
(***************************************************************************)
EXTENDS Integers, Sequences, FiniteSets, TLC

VARIABLES
    viability_dict, \* module global: seq -> viable
    nu_dict,        \* module global: seq -> nu
    run_p,          \* the p the driver of one run passes everywhere
    g,              \* the Genotype object the caller holds (the ancestor)
    rnd_used,       \* viability draws made by the last operation, by place
    n_calls,        \* calls the caller has made on genotypes
    pops,           \* heap of Population objects, by object identity
    orr,            \* the Orr object, its pop1/pop2 being identities in pops
    pc,             \* "idle", or "loop" inside the while loop of substitute
    blind,          \* argument of the substitute call in progress / last made
    chosen,         \* which of pop1 (1), pop2 (2) Orr.substitute picked
    attempts,       \* iterations of the while loop made by that call
    mut,            \* the local `mut` of Population.substitute
    err,            \* "none", or the exception that ended the run
    seqA, seqB,     \* arguments of a call of a static sequence function
    fn, ret         \* which function was called, and what it returned

vars == <<viability_dict, nu_dict, run_p, g, rnd_used, n_calls, pops, orr, pc, blind,
          chosen, attempts, mut, err, seqA, seqB, fn, ret>>

oracleVars == <<viability_dict, nu_dict, g, rnd_used, n_calls>>
orrVars == <<pops, orr, pc, blind, chosen, attempts, mut>>
pureVars == <<seqA, seqB, fn, ret>>

---------------------------------------------------------------------------
(* Bounds *)

\* Sequence length of the landscape of a run.
L == 2
\* Orr.substitute is called at most MaxSteps times.
MaxSteps == 2
\* The attempts counter saturates at MaxAttempts (the loop itself goes on).
MaxAttempts == 3
\* The caller constructs genotypes (Genotype, make_viable, get_robustness)
\* at most MaxCalls times.
MaxCalls == 2
\* The static sequence functions are applied to sequences of length 0..MaxLen.
MaxLen == 3

PVals == {0, 2, 4}
RandVals == {1, 3}
\* The value a draw takes where the operation never reads it.
RandUnused == CHOOSE r \in RandVals : TRUE

Alleles == {0, 1}
SeqsOfLen(n) == [1..n -> Alleles]
SeqsUpTo(n) == UNION {SeqsOfLen(k) : k \in 0..n}

EmptyDict == [k \in {} |-> 0]
\* d.update({k: v}) and d[k] = v
dict_update(d, k, v) == (k :> v) @@ d

Min(a, b) == IF a < b THEN a ELSE b
abs(x) == IF x < 0 THEN -x ELSE x

NoNu == <<>>
NoGenotype == [seq |-> <<>>, L |-> 0, p |-> 0, viable |-> FALSE, nu |-> NoNu, none |-> TRUE]
NoOrr == [none |-> TRUE]
NoRet == [err |-> FALSE, val |-> <<>>]
NoDraws == [viab |-> 0, nbrs |-> 0, IIs |-> 0]

---------------------------------------------------------------------------
(* Static sequence functions of Genotype *)

\* Mutant of mutate: the site is set to '1' instead of being flipped.
mutate_set_one(seq, site) == [seq EXCEPT ![site + 1] = 1]

\* Genotype.mutate for an int site: str(abs(int(seq[i]) - 1)) at site i.
mutate(seq, site) == [seq EXCEPT ![site + 1] = abs(@ - 1)]

\* Genotype.dist: zip() stops at the shorter sequence; the only assertion
\* compares the types of the arguments, which are both str.
RECURSIVE dist_zip(_, _, _)
dist_zip(a, b, n) ==
    IF n = 0 THEN 0
    ELSE dist_zip(a, b, n - 1) + (IF a[n] # b[n] THEN 1 ELSE 0)

dist(a, b) == dist_zip(a, b, Min(Len(a), Len(b)))

\* The call Genotype.dist(seqA, seqB) as the caller sees it.
dist_call(a, b) == [err |-> FALSE, val |-> dist(a, b)]

\* Genotype.get_diverged_sites: the loop over range(L) after the assertion.
RECURSIVE diverged_upto(_, _, _)
diverged_upto(s1, s2, n) ==
    IF n = 0 THEN [seq1_alleles |-> <<>>, seq2_alleles |-> <<>>, sites |-> <<>>]
    ELSE LET d == diverged_upto(s1, s2, n - 1) IN
         IF s1[n] # s2[n]
         THEN [seq1_alleles |-> Append(d.seq1_alleles, s1[n]),
               seq2_alleles |-> Append(d.seq2_alleles, s2[n]),
               sites |-> Append(d.sites, n - 1)]
         ELSE d

get_diverged_sites(s1, s2) == diverged_upto(s1, s2, Len(s1))

get_diverged_sites_call(s1, s2) ==
    IF Len(s2) # Len(s1) THEN [err |-> TRUE, val |-> <<>>]
    ELSE [err |-> FALSE, val |-> get_diverged_sites(s1, s2)]

\* Genotype.introgress: one mutate(recipient, i) per diverged site, in order.
introgress(recipient, donor) ==
    LET sites == get_diverged_sites(recipient, donor).sites IN
    [k \in 1..Len(sites) |-> mutate(recipient, sites[k])]

introgress_call(recipient, donor) ==
    IF Len(donor) # Len(recipient) THEN [err |-> TRUE, val |-> <<>>]
    ELSE [err |-> FALSE, val |-> introgress(recipient, donor)]

---------------------------------------------------------------------------
(* Genotype and the two dictionaries.  Every operator takes the dictionary *)
(* it reads and returns the dictionary it leaves, with the number of       *)
(* random numbers it consumed.                                             *)

\* F applied to the value of v, v being evaluated once.
With(v, F(_)) == CHOOSE y \in {F(x) : x \in {v}} : TRUE

\* Mutant of get_viability: rnd.random() is called before the dictionary is
\* consulted, so that a lookup of a recorded sequence consumes a draw too.
get_viability_draw_first(d, seq, p, rand) ==
    IF seq \in DOMAIN d
    THEN [viable |-> d[seq], dict |-> d, used |-> 1]
    ELSE [viable |-> rand < p, dict |-> dict_update(d, seq, rand < p),
          used |-> 1]

\* Mutant of get_viability: the dictionary is not consulted, every lookup
\* draws and records.
get_viability_redraw(d, seq, p, rand) ==
    [viable |-> rand < p, dict |-> dict_update(d, seq, rand < p), used |-> 1]

\* Genotype.get_viability
get_viability(d, seq, p, rand) ==
    IF seq \in DOMAIN d
    THEN [viable |-> d[seq], dict |-> d, used |-> 0]
    ELSE [viable |-> rand < p, dict |-> dict_update(d, seq, rand < p),
          used |-> 1]

\* Genotype.__init__ (the assertions on p hold for every p of PVals)
Genotype(d, seq, p, rand) ==
    With(get_viability(d, seq, p, rand), LAMBDA v :
        [g |-> [seq |-> seq, L |-> Len(seq), p |-> p, viable |-> v.viable,
                nu |-> NoNu, none |-> FALSE],
         dict |-> v.dict, used |-> v.used])

\* Mutant of make_viable: the viable field is set on the object only, the
\* dictionary keeps the value drawn.
make_viable_field_only(d, seq, p, rand) ==
    With(Genotype(d, seq, p, rand), LAMBDA c :
        IF ~c.g.viable
        THEN [g |-> [c.g EXCEPT !.viable = TRUE],
              dict |-> c.dict, used |-> c.used]
        ELSE c)

\* Genotype.make_viable
make_viable(d, seq, p, rand) ==
    With(Genotype(d, seq, p, rand), LAMBDA c :
        IF ~c.g.viable
        THEN [g |-> [c.g EXCEPT !.viable = TRUE],
              dict |-> [c.dict EXCEPT ![seq] = TRUE], used |-> c.used]
        ELSE c)

\* Genotype.get_viable_neighbors: sites 0..n-1 done; rr[i] is the draw
\* available to the lookup of the mutant at site i.
RECURSIVE viable_neighbors_upto(_, _, _, _)
viable_neighbors_upto(d, gt, rr, n) ==
    IF n = 0 THEN [viable |-> <<>>, dict |-> d, used |-> 0]
    ELSE With(viable_neighbors_upto(d, gt, rr, n - 1), LAMBDA prev :
         With(Genotype(prev.dict, mutate(gt.seq, n - 1), gt.p, rr[n - 1]),
              LAMBDA m :
             [viable |-> IF m.g.viable THEN Append(prev.viable, n - 1)
                         ELSE prev.viable,
              dict |-> m.dict, used |-> prev.used + m.used]))

get_viable_neighbors(d, gt, rr) == viable_neighbors_upto(d, gt, rr, gt.L)

\* Genotype.get_robustness
get_robustness(d, nd, gt, rr) ==
    IF gt.seq \in DOMAIN nd
    THEN [g |-> [gt EXCEPT !.nu = nd[gt.seq]], dict |-> d, nu_dict |-> nd,
          used |-> 0]
    ELSE With(get_viable_neighbors(d, gt, rr), LAMBDA vn :
             [g |-> [gt EXCEPT !.nu = <<Len(vn.viable), gt.L>>],
              dict |-> vn.dict,
              nu_dict |-> dict_update(nd, gt.seq, <<Len(vn.viable), gt.L>>),
              used |-> vn.used])

\* The draws an operation can read: one per site whose single-site mutant of
\* seq is not yet a key of d; the others are never read.
FreshSites(d, seq) == {i \in 0..(Len(seq) - 1) : mutate(seq, i) \notin DOMAIN d}
Draws(seq, fresh) ==
    {rr \in [0..(Len(seq) - 1) -> RandVals] :
        \A i \in 0..(Len(seq) - 1) : i \notin fresh => rr[i] = RandUnused}
Draw(d, seq) == IF seq \in DOMAIN d THEN {RandUnused} ELSE RandVals
NbrDraws(d, nd, seq) ==
    IF seq \in DOMAIN nd THEN Draws(seq, {}) ELSE Draws(seq, FreshSites(d, seq))

---------------------------------------------------------------------------
(* Genotype.get_IIs *)

\* Mutant of IIs_upto: the test `if not seq.viable` is inverted.
RECURSIVE IIs_upto_inverted(_, _, _, _, _)
IIs_upto_inverted(d, self, intro, rr, n) ==
    IF n = 0 THEN [inviable |-> EmptyDict, dict |-> d, used |-> 0]
    ELSE With(IIs_upto_inverted(d, self, intro, rr, n - 1), LAMBDA prev :
         With(get_diverged_sites(self.seq, intro[n]), LAMBDA diverged :
         With(Genotype(prev.dict, intro[n], self.p, rr[diverged.sites[1]]),
              LAMBDA seq :
             [inviable |-> IF seq.g.viable
                           THEN dict_update(prev.inviable, diverged.sites[1],
                                            diverged.seq2_alleles[1])
                           ELSE prev.inviable,
              dict |-> seq.dict, used |-> prev.used + seq.used])))

\* Mutant of IIs_upto: the recipient's allele is recorded, not the donor's.
RECURSIVE IIs_upto_own_allele(_, _, _, _, _)
IIs_upto_own_allele(d, self, intro, rr, n) ==
    IF n = 0 THEN [inviable |-> EmptyDict, dict |-> d, used |-> 0]
    ELSE With(IIs_upto_own_allele(d, self, intro, rr, n - 1), LAMBDA prev :
         With(get_diverged_sites(self.seq, intro[n]), LAMBDA diverged :
         With(Genotype(prev.dict, intro[n], self.p, rr[diverged.sites[1]]),
              LAMBDA seq :
             [inviable |-> IF ~seq.g.viable
                           THEN dict_update(prev.inviable, diverged.sites[1],
                                            diverged.seq1_alleles[1])
                           ELSE prev.inviable,
              dict |-> seq.dict, used |-> prev.used + seq.used])))

\* The loop over the introgressions: the first n are done.
RECURSIVE IIs_upto(_, _, _, _, _)
IIs_upto(d, self, intro, rr, n) ==
    IF n = 0 THEN [inviable |-> EmptyDict, dict |-> d, used |-> 0]
    ELSE With(IIs_upto(d, self, intro, rr, n - 1), LAMBDA prev :
         With(get_diverged_sites(self.seq, intro[n]), LAMBDA diverged :
         With(Genotype(prev.dict, intro[n], self.p, rr[diverged.sites[1]]),
              LAMBDA seq :
             [inviable |-> IF ~seq.g.viable
                           THEN dict_update(prev.inviable, diverged.sites[1],
                                            diverged.seq2_alleles[1])
                           ELSE prev.inviable,
              dict |-> seq.dict, used |-> prev.used + seq.used])))

\* Mutant of get_IIs: the last assertion reads `assert not donor.viable`.
get_IIs_assert_inviable_donor(d, self, donor, rr) ==
    IF self.p # donor.p \/ self.L # donor.L \/ ~self.viable \/ donor.viable
    THEN [err |-> TRUE, inviable |-> EmptyDict, dict |-> d, used |-> 0]
    ELSE With(introgress(self.seq, donor.seq), LAMBDA introgressions :
         With(IIs_upto(d, self, introgressions, rr, Len(introgressions)),
              LAMBDA r :
             [err |-> FALSE, inviable |-> r.inviable, dict |-> r.dict,
              used |-> r.used]))

\* Genotype.get_IIs: the four assertions, then the loop.
get_IIs(d, self, donor, rr) ==
    IF self.p # donor.p \/ self.L # donor.L \/ ~self.viable \/ ~donor.viable
    THEN [err |-> TRUE, inviable |-> EmptyDict, dict |-> d, used |-> 0]
    ELSE With(introgress(self.seq, donor.seq), LAMBDA introgressions :
         With(IIs_upto(d, self, introgressions, rr, Len(introgressions)),
              LAMBDA r :
             [err |-> FALSE, inviable |-> r.inviable, dict |-> r.dict,
              used |-> r.used]))

---------------------------------------------------------------------------
(* Population *)

PopSnapshot(current, d) == [seq |-> current.seq, dist |-> d, nu |-> current.nu]

\* Mutant of Population: ancestor.get_robustness() is not called.
Population_no_robustness(d, nd, ancestor, rr) ==
    [pop |-> [ancestor |-> ancestor, current |-> ancestor, p |-> ancestor.p,
              n_steps |-> 0, dist |-> 0,
              history |-> dict_update(EmptyDict, 0, PopSnapshot(ancestor, 0))],
     ancestor |-> ancestor, dict |-> d, nu_dict |-> nd, used |-> 0]

\* Population.__init__, past its assertion: get_robustness sets nu on the
\* ancestor object itself, current is a deep copy of it.
Population(d, nd, ancestor, rr) ==
    With(get_robustness(d, nd, ancestor, rr), LAMBDA rb :
        [pop |-> [ancestor |-> rb.g, current |-> rb.g, p |-> ancestor.p,
                  n_steps |-> 0, dist |-> 0,
                  history |-> dict_update(EmptyDict, 0, PopSnapshot(rb.g, 0))],
         ancestor |-> rb.g, dict |-> rb.dict, nu_dict |-> rb.nu_dict,
         used |-> rb.used])

\* Mutant of substitute_attempt: `if blind:` is dropped, an inviable mutant
\* ends the loop in both regimes.
substitute_attempt_always_found(d, pop, b, site, rand) ==
    With(Genotype(d, mutate(pop.current.seq, site), pop.p, rand), LAMBDA c :
        [mut |-> c.g,
         found |-> TRUE,
         pop |-> IF c.g.viable THEN [pop EXCEPT !.current = c.g] ELSE pop,
         dict |-> c.dict, used |-> c.used])

\* Mutant of substitute_attempt: `self.current = mut` is done whether or not
\* the mutant is viable.
substitute_attempt_always_move(d, pop, b, site, rand) ==
    With(Genotype(d, mutate(pop.current.seq, site), pop.p, rand), LAMBDA c :
        [mut |-> c.g,
         found |-> c.g.viable \/ b,
         pop |-> [pop EXCEPT !.current = c.g],
         dict |-> c.dict, used |-> c.used])

\* Mutant of substitute_attempt: the viability of the mutant is not tested,
\* the first mutant drawn is accepted.
substitute_attempt_ignore_viability(d, pop, b, site, rand) ==
    With(Genotype(d, mutate(pop.current.seq, site), pop.p, rand), LAMBDA c :
        [mut |-> c.g,
         found |-> TRUE,
         pop |-> [pop EXCEPT !.current = c.g],
         dict |-> c.dict, used |-> c.used])

\* Mutant of substitute_attempt: `found = True` is left out of the branch of
\* a viable mutant, only a blind call ends its loop.
substitute_attempt_never_found(d, pop, b, site, rand) ==
    With(Genotype(d, mutate(pop.current.seq, site), pop.p, rand), LAMBDA c :
        [mut |-> c.g,
         found |-> b,
         pop |-> IF c.g.viable THEN [pop EXCEPT !.current = c.g] ELSE pop,
         dict |-> c.dict, used |-> c.used])

\* One iteration of the while loop of Population.substitute: site is the
\* value of rnd.randint(0, len(seq)), rand the draw open to the lookup.
substitute_attempt(d, pop, b, site, rand) ==
    With(Genotype(d, mutate(pop.current.seq, site), pop.p, rand), LAMBDA c :
        [mut |-> c.g,
         found |-> c.g.viable \/ b,
         pop |-> IF c.g.viable THEN [pop EXCEPT !.current = c.g] ELSE pop,
         dict |-> c.dict, used |-> c.used])

\* Mutant of substitute_finish: the snapshot is stored before n_steps is
\* incremented, under the key of the previous snapshot.
substitute_finish_late_increment(d, nd, pop, rr) ==
    With(get_robustness(d, nd, pop.current, rr), LAMBDA rb :
    With(dist(rb.g.seq, pop.ancestor.seq), LAMBDA dd :
        [pop |-> [pop EXCEPT !.current = rb.g,
                             !.n_steps = pop.n_steps + 1,
                             !.dist = dd,
                             !.history = dict_update(pop.history, pop.n_steps,
                                                     PopSnapshot(rb.g, dd))],
         dict |-> rb.dict, nu_dict |-> rb.nu_dict, used |-> rb.used]))

\* Mutant of substitute_finish: dist is counted up by one per call instead of
\* being recomputed from the sequences.
substitute_finish_dist_counted(d, nd, pop, rr) ==
    With(get_robustness(d, nd, pop.current, rr), LAMBDA rb :
    With(pop.dist + 1, LAMBDA dd :
        [pop |-> [pop EXCEPT !.current = rb.g,
                             !.n_steps = pop.n_steps + 1,
                             !.dist = dd,
                             !.history = dict_update(pop.history, pop.n_steps + 1,
                                                     PopSnapshot(rb.g, dd))],
         dict |-> rb.dict, nu_dict |-> rb.nu_dict, used |-> rb.used]))

\* Population.substitute after the loop.
substitute_finish(d, nd, pop, rr) ==
    With(get_robustness(d, nd, pop.current, rr), LAMBDA rb :
    With(dist(rb.g.seq, pop.ancestor.seq), LAMBDA dd :
        [pop |-> [pop EXCEPT !.current = rb.g,
                             !.n_steps = pop.n_steps + 1,
                             !.dist = dd,
                             !.history = dict_update(pop.history, pop.n_steps + 1,
                                                     PopSnapshot(rb.g, dd))],
         dict |-> rb.dict, nu_dict |-> rb.nu_dict, used |-> rb.used]))

---------------------------------------------------------------------------
(* Orr *)

\* rand < 0.5 in Orr.substitute
Half == 2
\* Mutant of deepcopy_pop1: self.pop2 = self.pop1, the same object.
deepcopy_pop1_alias == "pop1"
\* The identity of the object deepcopy(self.pop1) returns: a new object.
deepcopy_pop1 == "pop2"

OrrSnapshot(ps, o) ==
    [seq1 |-> ps[o.pop1].current.seq, seq2 |-> ps[o.pop2].current.seq,
     dist01 |-> ps[o.pop1].dist, dist02 |-> ps[o.pop2].dist, dist12 |-> o.dist,
     II1 |-> o.II1, II2 |-> o.II2,
     nu1 |-> ps[o.pop1].current.nu, nu2 |-> ps[o.pop2].current.nu]

\* Mutant of Orr_record: self.history = {self.n_steps: {...}}, an assignment
\* in place of the update.
Orr_record_assign(ps, o) ==
    [o EXCEPT !.history = dict_update(EmptyDict, o.n_steps, OrrSnapshot(ps, o))]

\* self.history.update({self.n_steps: {...}}) of Orr
Orr_record(ps, o) ==
    [o EXCEPT !.history = dict_update(o.history, o.n_steps, OrrSnapshot(ps, o))]

\* Orr.__init__: the heap it leaves and the Orr object.
Orr_init(d, nd, ancestor, rr) ==
    With(Population(d, nd, ancestor, rr), LAMBDA c :
    With(dict_update(dict_update(EmptyDict, "pop1", c.pop), deepcopy_pop1, c.pop),
         LAMBDA ps :
        [pops |-> ps,
         orr |-> Orr_record(ps,
                    [none |-> FALSE, pop1 |-> "pop1", pop2 |-> deepcopy_pop1,
                     dist |-> 0, II1 |-> EmptyDict, II2 |-> EmptyDict,
                     p |-> ancestor.p, n_steps |-> 0, history |-> EmptyDict]),
         ancestor |-> c.ancestor, dict |-> c.dict, nu_dict |-> c.nu_dict,
         used |-> c.used]))

\* Orr.get_dist
get_dist(ps, o) == dist(ps[o.pop1].current.seq, ps[o.pop2].current.seq)

\* Orr.get_IIs
Orr_get_IIs(d, ps, o, r1, r2) ==
    With(get_IIs(d, ps[o.pop1].current, ps[o.pop2].current, r1), LAMBDA i1 :
    With(get_IIs(i1.dict, ps[o.pop2].current, ps[o.pop1].current, r2),
         LAMBDA i2 :
        [err |-> i1.err \/ i2.err, II1 |-> i1.inviable, II2 |-> i2.inviable,
         dict |-> i2.dict, used |-> i1.used + i2.used]))

\* Mutant of Orr_finish: get_IIs is skipped up to two diverged sites.
Orr_finish_skip_two(d, ps, o, r1, r2) ==
    With([o EXCEPT !.n_steps = o.n_steps + 1, !.dist = get_dist(ps, o),
                   !.II1 = EmptyDict, !.II2 = EmptyDict], LAMBDA o1 :
        IF o1.dist > 2
        THEN With(Orr_get_IIs(d, ps, o1, r1, r2), LAMBDA ii :
                 IF ii.err
                 THEN [err |-> TRUE, orr |-> o1, dict |-> d, used |-> 0]
                 ELSE [err |-> FALSE,
                       orr |-> Orr_record(ps, [o1 EXCEPT !.II1 = ii.II1,
                                                         !.II2 = ii.II2]),
                       dict |-> ii.dict, used |-> ii.used])
        ELSE [err |-> FALSE, orr |-> Orr_record(ps, o1), dict |-> d,
              used |-> 0])

\* Orr.substitute after the substitute call of the chosen population.  A
\* failed assertion of get_IIs leaves the step without its snapshot.
Orr_finish(d, ps, o, r1, r2) ==
    With([o EXCEPT !.n_steps = o.n_steps + 1, !.dist = get_dist(ps, o),
                   !.II1 = EmptyDict, !.II2 = EmptyDict], LAMBDA o1 :
        IF o1.dist > 1
        THEN With(Orr_get_IIs(d, ps, o1, r1, r2), LAMBDA ii :
                 IF ii.err
                 THEN [err |-> TRUE, orr |-> o1, dict |-> d, used |-> 0]
                 ELSE [err |-> FALSE,
                       orr |-> Orr_record(ps, [o1 EXCEPT !.II1 = ii.II1,
                                                         !.II2 = ii.II2]),
                       dict |-> ii.dict, used |-> ii.used])
        ELSE [err |-> FALSE, orr |-> Orr_record(ps, o1), dict |-> d,
              used |-> 0])

---------------------------------------------------------------------------
(* The caller's operations *)

\* g = Genotype(s, p)
NewGenotype(s, p, r) ==
    /\ pc = "idle" /\ err = "none"
    /\ n_calls < MaxCalls
    /\ n_calls' = n_calls + 1
    /\ \E c \in {Genotype(viability_dict, s, p, r)} :
        /\ g' = c.g
        /\ viability_dict' = c.dict
        /\ rnd_used' = [NoDraws EXCEPT !.viab = c.used]
    /\ UNCHANGED <<nu_dict, run_p, err>>
    /\ UNCHANGED orrVars
    /\ UNCHANGED pureVars

\* g = Genotype.make_viable(s, p)
MakeViable(s, p, r) ==
    /\ pc = "idle" /\ err = "none"
    /\ n_calls < MaxCalls
    /\ n_calls' = n_calls + 1
    /\ \E c \in {make_viable(viability_dict, s, p, r)} :
        /\ g' = c.g
        /\ viability_dict' = c.dict
        /\ rnd_used' = [NoDraws EXCEPT !.viab = c.used]
    /\ UNCHANGED <<nu_dict, run_p, err>>
    /\ UNCHANGED orrVars
    /\ UNCHANGED pureVars

\* g.get_robustness()
GetRobustness(rr) ==
    /\ pc = "idle" /\ err = "none"
    /\ n_calls < MaxCalls
    /\ n_calls' = n_calls + 1
    /\ ~g.none
    /\ \E c \in {get_robustness(viability_dict, nu_dict, g, rr)} :
        /\ g' = c.g
        /\ viability_dict' = c.dict
        /\ nu_dict' = c.nu_dict
        /\ rnd_used' = [NoDraws EXCEPT !.nbrs = c.used]
    /\ UNCHANGED <<run_p, err>>
    /\ UNCHANGED orrVars
    /\ UNCHANGED pureVars

\* orr = Orr(g)
CreateOrr(rr) ==
    /\ pc = "idle" /\ err = "none"
    /\ orr.none /\ ~g.none
    /\ IF ~g.viable
       THEN /\ err' = "AssertionError"
            /\ UNCHANGED <<viability_dict, nu_dict, g, rnd_used, pops, orr>>
       ELSE \E c \in {Orr_init(viability_dict, nu_dict, g, rr)} :
            /\ pops' = c.pops
            /\ orr' = c.orr
            /\ g' = c.ancestor
            /\ viability_dict' = c.dict
            /\ nu_dict' = c.nu_dict
            /\ rnd_used' = [NoDraws EXCEPT !.nbrs = c.used]
            /\ err' = "none"
    /\ UNCHANGED <<run_p, n_calls, pc, blind, chosen, attempts, mut>>
    /\ UNCHANGED pureVars

\* orr.substitute(b), one iteration of the while loop of the chosen
\* population's substitute at a time.  coin is the rnd.random() of
\* Orr.substitute.  The iteration that ends the loop runs the call to its end.
Substitute(b, coin) ==
    /\ err = "none"
    /\ ~orr.none
    /\ \E c \in {IF coin < Half THEN 1 ELSE 2} :
       \E ref \in {IF c = 1 THEN orr.pop1 ELSE orr.pop2} :
       \E before \in {IF pc = "idle" THEN NoDraws ELSE rnd_used} :
         /\ \/ pc = "idle" /\ orr.n_steps < MaxSteps
            \/ pc = "loop" /\ b = blind /\ c = chosen
         /\ \E site \in 0..(pops[ref].current.L - 1) :
            \E r \in Draw(viability_dict, mutate(pops[ref].current.seq, site)) :
            \E a \in {substitute_attempt(viability_dict, pops[ref], b, site, r)} :
              /\ blind' = b
              /\ chosen' = c
              /\ mut' = a.mut
              /\ attempts' = IF pc = "idle" THEN 1
                             ELSE IF attempts < MaxAttempts THEN attempts + 1
                             ELSE attempts
              /\ IF a.found
                 THEN \E rr \in NbrDraws(a.dict, nu_dict, a.pop.current.seq) :
                      \E f \in {substitute_finish(a.dict, nu_dict, a.pop, rr)} :
                      \E ps \in {[pops EXCEPT ![ref] = f.pop]} :
                      \E r1 \in Draws(ps[orr.pop1].current.seq,
                                      FreshSites(f.dict, ps[orr.pop1].current.seq)) :
                      \E r2 \in Draws(ps[orr.pop2].current.seq,
                                      FreshSites(f.dict, ps[orr.pop2].current.seq)) :
                      \E o \in {Orr_finish(f.dict, ps, orr, r1, r2)} :
                        /\ pops' = ps
                        /\ orr' = o.orr
                        /\ viability_dict' = o.dict
                        /\ nu_dict' = f.nu_dict
                        /\ rnd_used' = [viab |-> before.viab + a.used,
                                        nbrs |-> f.used, IIs |-> o.used]
                        /\ err' = IF o.err THEN "AssertionError" ELSE "none"
                        /\ pc' = "idle"
                 ELSE /\ viability_dict' = a.dict
                      /\ rnd_used' = [before EXCEPT !.viab = before.viab + a.used]
                      /\ pc' = "loop"
                      /\ UNCHANGED <<nu_dict, pops, orr, err>>
    /\ UNCHANGED <<run_p, g, n_calls>>
    /\ UNCHANGED pureVars

---------------------------------------------------------------------------
(* Calls of the static sequence functions *)

CallDist ==
    /\ fn = "none"
    /\ fn' = "dist" /\ ret' = dist_call(seqA, seqB)
    /\ UNCHANGED <<seqA, seqB, run_p, err>>
    /\ UNCHANGED oracleVars
    /\ UNCHANGED orrVars

CallDivergedSites ==
    /\ fn = "none"
    /\ fn' = "get_diverged_sites" /\ ret' = get_diverged_sites_call(seqA, seqB)
    /\ UNCHANGED <<seqA, seqB, run_p, err>>
    /\ UNCHANGED oracleVars
    /\ UNCHANGED orrVars

CallIntrogress ==
    /\ fn = "none"
    /\ fn' = "introgress" /\ ret' = introgress_call(seqA, seqB)
    /\ UNCHANGED <<seqA, seqB, run_p, err>>
    /\ UNCHANGED oracleVars
    /\ UNCHANGED orrVars

---------------------------------------------------------------------------
(* Specifications *)

InitProgram ==
    /\ viability_dict = EmptyDict
    /\ nu_dict = EmptyDict
    /\ g = NoGenotype
    /\ rnd_used = NoDraws
    /\ n_calls = 0
    /\ pops = EmptyDict
    /\ orr = NoOrr
    /\ pc = "idle"
    /\ blind = FALSE
    /\ chosen = 0
    /\ attempts = 0
    /\ mut = NoGenotype
    /\ err = "none"

InitNoCall ==
    /\ seqA = <<>> /\ seqB = <<>> /\ fn = "none" /\ ret = NoRet

\* The caller's genotype operations alone, with any p at every call.
InitOracle == InitProgram /\ InitNoCall /\ run_p = 0

NextOracle ==
    \/ \E s \in SeqsOfLen(L), p \in PVals : \E r \in Draw(viability_dict, s) :
          NewGenotype(s, p, r)
    \/ \E s \in SeqsOfLen(L), p \in PVals : \E r \in Draw(viability_dict, s) :
          MakeViable(s, p, r)
    \/ \E rr \in NbrDraws(viability_dict, nu_dict, g.seq) : GetRobustness(rr)

SpecOracle == InitOracle /\ [][NextOracle]_vars

\* One run: the driver passes the same p to every call.
Init == InitProgram /\ InitNoCall /\ run_p \in PVals

Next ==
    \/ \E s \in SeqsOfLen(L) : \E r \in Draw(viability_dict, s) :
          NewGenotype(s, run_p, r)
    \/ \E s \in SeqsOfLen(L) : \E r \in Draw(viability_dict, s) :
          MakeViable(s, run_p, r)
    \/ \E rr \in NbrDraws(viability_dict, nu_dict, g.seq) : CreateOrr(rr)
    \/ \E b \in BOOLEAN, coin \in RandVals : Substitute(b, coin)

Spec == Init /\ [][Next]_vars

\* An iteration of the while loop of a substitute call under way whose
\* rnd.randint(0, len(seq)) returns site i.
TrySite(i) ==
    /\ pc = "loop"
    /\ \E b \in BOOLEAN, coin \in RandVals : Substitute(b, coin)
    /\ mut'.seq = mutate(pops[IF chosen = 1 THEN orr.pop1
                               ELSE orr.pop2].current.seq, i)

\* A call under way keeps running, and rnd.randint draws every site with
\* probability 1/L at every iteration: in a loop that runs for ever every
\* site is drawn again and again.
FairSites == \A i \in 0..(L - 1) : WF_vars(TrySite(i))

SpecFair == Init /\ [][Next]_vars /\ FairSites

\* The static sequence functions on every pair of sequences up to MaxLen.
InitPure ==
    /\ InitProgram /\ run_p = 0
    /\ seqA \in SeqsUpTo(MaxLen) /\ seqB \in SeqsUpTo(MaxLen)
    /\ fn = "none" /\ ret = NoRet

NextPure == CallDist \/ CallDivergedSites \/ CallIntrogress

SpecPure == InitPure /\ [][NextPure]_vars

---------------------------------------------------------------------------
(* Vocabulary of the properties *)

\* The positions (1-indexed) at which two sequences of one length differ.
Differing(s, t) == {i \in 1..Len(s) : s[i] # t[i]}
OneSiteApart(s, t) == Len(s) = Len(t) /\ Cardinality(Differing(s, t)) = 1

ChosenRef(o, c) == IF c = 1 THEN o.pop1 ELSE o.pop2
OtherRef(o, c) == IF c = 1 THEN o.pop2 ELSE o.pop1

\* A step of orr.substitute, and the step that ends the call.
SubstituteStep == \E b \in BOOLEAN, coin \in RandVals : Substitute(b, coin)
SubstituteReturns == SubstituteStep /\ pc' = "idle"

---------------------------------------------------------------------------
(* C1 *)

C1_SecondLookup ==
    \A s \in SeqsOfLen(L), p \in PVals, r \in RandVals :
        (s \in DOMAIN viability_dict /\ NewGenotype(s, p, r)) =>
            /\ g'.viable = viability_dict[s]
            /\ rnd_used'.viab = 0
            /\ viability_dict' = viability_dict

\* C1: the genotype a lookup returns carries the value the Oracle records for
\* its sequence, and a lookup Genotype(s, p') of a sequence the Oracle already
\* holds returns the recorded value for every p', draws no random number and
\* leaves the Oracle as it was: two lookups of s return the same value.
C1_OracleIdempotence ==
    /\ [](~g.none => /\ g.seq \in DOMAIN viability_dict
                     /\ viability_dict[g.seq] = g.viable)
    /\ [][C1_SecondLookup]_vars

\* A lookup with p = 1.0 has returned inviable without drawing: the sequence
\* was recorded inviable by an earlier lookup with another p.
C1_Witness ==
    /\ ~g.none /\ g.p = 4 /\ ~g.viable
    /\ rnd_used.viab = 0 /\ n_calls = 2

---------------------------------------------------------------------------
(* C2 *)

\* C2 as claimed: in every step every entry of the Oracle stays, with the
\* value it had.
C2_OracleNeverOverwritten ==
    [][\A s \in DOMAIN viability_dict :
          /\ s \in DOMAIN viability_dict'
          /\ viability_dict'[s] = viability_dict[s]]_vars

\* C2 as amended: in every step every entry of the Oracle stays; its value
\* changes only from inviable to viable, and only in a make_viable call on
\* that very sequence.
C2_OracleGrows ==
    [][\A s \in DOMAIN viability_dict :
          /\ s \in DOMAIN viability_dict'
          /\ viability_dict'[s] # viability_dict[s] =>
                /\ ~viability_dict[s] /\ viability_dict'[s]
                /\ \E r \in RandVals : MakeViable(s, run_p, r)]_vars

\* A run at p = 0 whose ancestor (and one more sequence) was forced viable,
\* after substitutions, the Oracle having grown to three sequences or more.
C2_Witness ==
    /\ run_p = 0 /\ ~orr.none /\ orr.n_steps >= 1
    /\ Cardinality({s \in DOMAIN viability_dict : viability_dict[s]}) >= 2
    /\ Cardinality(DOMAIN viability_dict) >= 3

---------------------------------------------------------------------------
(* C3 *)

C3_HistoryStep ==
    \A ref \in DOMAIN pops :
        /\ ref \in DOMAIN pops'
        /\ \A j \in DOMAIN pops[ref].history :
              /\ j \in DOMAIN pops'[ref].history
              /\ pops'[ref].history[j] = pops[ref].history[j]
        /\ IF SubstituteReturns /\ ref = ChosenRef(orr, chosen')
           THEN pops'[ref].n_steps = pops[ref].n_steps + 1
           ELSE pops'[ref].n_steps = pops[ref].n_steps

\* C3: the history of a Population has exactly the keys 0..n_steps; n_steps
\* is 0 at construction and grows by one with each substitute call of that
\* population that returns (and in no other step); no step changes the
\* snapshot stored at an existing key.
C3_PopulationHistory ==
    /\ [](\A ref \in DOMAIN pops :
            DOMAIN pops[ref].history = 0..pops[ref].n_steps)
    /\ [][C3_HistoryStep]_vars

\* A population that has moved twice: three snapshots.
C3_Witness ==
    \E ref \in DOMAIN pops :
        /\ pops[ref].n_steps = 2
        /\ pops[ref].history[0].seq # pops[ref].history[1].seq
        /\ pops[ref].history[1].seq # pops[ref].history[2].seq

---------------------------------------------------------------------------
(* C4 *)

C4_FrameStep ==
    SubstituteStep =>
        /\ pops'[OtherRef(orr, chosen')] = pops[OtherRef(orr, chosen')]
        /\ IF pc' = "idle"
           THEN pops'[ChosenRef(orr, chosen')].n_steps =
                    pops[ChosenRef(orr, chosen')].n_steps + 1
           ELSE pops' = pops

\* C4: pop1 and pop2 are two objects; a step of Orr.substitute leaves the
\* population that was not chosen exactly as it was (current, ancestor,
\* n_steps, dist, history), and the call that returns has substituted the
\* chosen one once.
C4_OtherPopulationUntouched ==
    /\ [](~orr.none => orr.pop1 # orr.pop2)
    /\ [][C4_FrameStep]_vars

\* Both lineages have been substituted and stand at different sequences.
C4_Witness ==
    /\ ~orr.none
    /\ pops[orr.pop1].n_steps >= 1 /\ pops[orr.pop2].n_steps >= 1
    /\ pops[orr.pop1].current.seq # pops[orr.pop2].current.seq

---------------------------------------------------------------------------
(* C5 *)

\* C5: in a run with p = 1.0 every snapshot of the Orr history has empty II1
\* and II2, substitute is never inside its loop after an attempt, and every
\* call that has returned made one attempt and moved the chosen lineage to
\* the mutant drawn.
C5_AllViable ==
    (run_p = 4 /\ ~orr.none) =>
        /\ \A j \in DOMAIN orr.history :
              /\ orr.history[j].II1 = EmptyDict
              /\ orr.history[j].II2 = EmptyDict
        /\ pc = "idle"
        /\ orr.n_steps >= 1 =>
              /\ attempts = 1
              /\ mut.viable
              /\ pops[ChosenRef(orr, chosen)].current.seq = mut.seq
              /\ pops[ChosenRef(orr, chosen)].history[
                     pops[ChosenRef(orr, chosen)].n_steps].seq #
                 pops[ChosenRef(orr, chosen)].history[
                     pops[ChosenRef(orr, chosen)].n_steps - 1].seq

\* At p = 1.0 the lineages are two sites apart: get_IIs has run.
C5_Witness ==
    /\ run_p = 4 /\ ~orr.none /\ orr.n_steps >= 2 /\ orr.dist = 2
    /\ orr.history[orr.n_steps].dist12 = 2

---------------------------------------------------------------------------
(* C6 *)

C6_MyopicStep ==
    (run_p = 0 /\ SubstituteStep /\ ~blind') =>
        /\ err' = "none"
        /\ IF pc' = "idle"
           THEN /\ pops'[ChosenRef(orr, chosen')].current.seq \in
                       DOMAIN viability_dict
                /\ viability_dict[pops'[ChosenRef(orr, chosen')].current.seq]
                /\ OneSiteApart(pops[ChosenRef(orr, chosen')].current.seq,
                                pops'[ChosenRef(orr, chosen')].current.seq)
           ELSE /\ pc' = "loop"
                /\ pops' = pops /\ orr' = orr
                /\ mut'.seq \in DOMAIN viability_dict'
                /\ ~viability_dict'[mut'.seq]

\* C6: in a run with p = 0.0 every step of a myopic substitute either draws
\* an inviable mutant and stays in the loop, nothing having moved, or returns
\* with the chosen lineage on a one-site neighbour that the Oracle already
\* recorded viable before the step (at p = 0 only make_viable records a
\* viable sequence); it never returns in place or on an inviable genotype,
\* and no step raises.
C6_MyopicAtZero == [][C6_MyopicStep]_vars

\* At p = 0 a myopic call has retried and then moved.
C6_Witness ==
    /\ run_p = 0 /\ ~orr.none /\ orr.n_steps >= 1
    /\ pc = "idle" /\ ~blind /\ attempts >= 2

---------------------------------------------------------------------------
(* C7 *)

\* C7 as claimed: Genotype.dist fails on sequences of unequal length, and
\* returns the number of differing positions on sequences of equal length.
C7_DistChecksLength ==
    fn = "dist" =>
        IF Len(seqA) # Len(seqB)
        THEN ret.err
        ELSE ~ret.err /\ ret.val = Cardinality(Differing(seqA, seqB))

---------------------------------------------------------------------------
(* C8 *)

\* The k-th smallest position (1-indexed) at which r and d differ.
KthDiverged(r, d, k) ==
    CHOOSE i \in Differing(r, d) :
        Cardinality({j \in Differing(r, d) : j < i}) = k - 1

\* C8: on sequences r, d of equal length introgress(r, d) returns dist(r, d)
\* sequences (as many as there are differing positions); the k-th differs
\* from r at the k-th diverged site and nowhere else, and carries d's allele
\* there.
C8_Introgress ==
    (fn = "introgress" /\ Len(seqA) = Len(seqB)) =>
        /\ ~ret.err
        /\ Len(ret.val) = dist(seqA, seqB)
        /\ Len(ret.val) = Cardinality(Differing(seqA, seqB))
        /\ \A k \in 1..Len(ret.val) :
              /\ Len(ret.val[k]) = Len(seqA)
              /\ Differing(seqA, ret.val[k]) = {KthDiverged(seqA, seqB, k)}
              /\ ret.val[k][KthDiverged(seqA, seqB, k)] =
                     seqB[KthDiverged(seqA, seqB, k)]

\* introgress has returned three sequences, the recipient carrying both
\* alleles at diverged sites.
C8_Witness ==
    /\ fn = "introgress" /\ Len(seqA) = Len(seqB)
    /\ Len(ret.val) = 3
    /\ \E i, j \in 1..Len(seqA) : seqA[i] = 0 /\ seqA[j] = 1

---------------------------------------------------------------------------
(* C10 *)

C10_BlindStep ==
    (SubstituteStep /\ blind') =>
        /\ pc = "idle" /\ pc' = "idle"
        /\ attempts' = 1
        /\ OneSiteApart(pops[ChosenRef(orr, chosen')].current.seq, mut'.seq)
        /\ pops'[ChosenRef(orr, chosen')].current.seq =
              IF viability_dict'[mut'.seq]
              THEN mut'.seq
              ELSE pops[ChosenRef(orr, chosen')].current.seq
        /\ pops'[ChosenRef(orr, chosen')].n_steps =
              pops[ChosenRef(orr, chosen')].n_steps + 1
        /\ DOMAIN pops'[ChosenRef(orr, chosen')].history =
              DOMAIN pops[ChosenRef(orr, chosen')].history \cup
                  {pops'[ChosenRef(orr, chosen')].n_steps}
        /\ pops'[ChosenRef(orr, chosen')].n_steps \notin
              DOMAIN pops[ChosenRef(orr, chosen')].history
        /\ pops'[ChosenRef(orr, chosen')].history[
              pops'[ChosenRef(orr, chosen')].n_steps].seq =
                  pops'[ChosenRef(orr, chosen')].current.seq

\* C10: a blind substitute call is one step: one attempt at a one-site
\* mutant; the population moves to the mutant if the Oracle records it
\* viable and stays otherwise; either way the call returns with n_steps one
\* higher and one snapshot more.
C10_BlindAnt == [][C10_BlindStep]_vars

\* A blind call has returned with the lineage in place, its mutant inviable.
C10_Witness ==
    /\ ~orr.none /\ pc = "idle" /\ blind /\ attempts = 1
    /\ ~mut.none /\ ~mut.viable
    /\ pops[ChosenRef(orr, chosen)].n_steps >= 1
    /\ pops[ChosenRef(orr, chosen)].current.seq # mut.seq

---------------------------------------------------------------------------
(* C11 *)

C11_MyopicStep ==
    (SubstituteStep /\ ~blind') =>
        IF pc' = "idle"
        THEN /\ pops'[ChosenRef(orr, chosen')].current.viable
             /\ pops'[ChosenRef(orr, chosen')].current.seq \in
                    DOMAIN viability_dict'
             /\ viability_dict'[pops'[ChosenRef(orr, chosen')].current.seq]
             /\ OneSiteApart(pops[ChosenRef(orr, chosen')].current.seq,
                             pops'[ChosenRef(orr, chosen')].current.seq)
             /\ pops'[ChosenRef(orr, chosen')].n_steps =
                    pops[ChosenRef(orr, chosen')].n_steps + 1
             /\ pops'[ChosenRef(orr, chosen')].history[
                    pops'[ChosenRef(orr, chosen')].n_steps].seq =
                        pops'[ChosenRef(orr, chosen')].current.seq
        ELSE /\ pops' = pops
             /\ ~viability_dict'[mut'.seq]

\* C11: at every p, the step in which a myopic substitute returns leaves the
\* chosen lineage on a genotype that is viable (field and Oracle) and exactly
\* one site away from the one it had when the call began, however many
\* inviable mutants were drawn before; n_steps of the population grows by one
\* in that step and in no attempt that stays in the loop.
C11_MyopicAnt == [][C11_MyopicStep]_vars

\* At p = 0.5 a myopic call has drawn inviable mutants, retried, and moved.
C11_Witness ==
    /\ run_p = 2 /\ ~orr.none /\ pc = "idle" /\ ~blind
    /\ attempts >= 3 /\ mut.viable
    /\ pops[ChosenRef(orr, chosen)].current.seq = mut.seq
    /\ \E s \in DOMAIN viability_dict : ~viability_dict[s]

---------------------------------------------------------------------------
(* C12 *)

C12_ShortcutStep ==
    SubstituteReturns =>
        /\ err' = "none"
        /\ orr'.dist <= 1 => orr'.II1 = EmptyDict /\ orr'.II2 = EmptyDict
        /\ \A r1 \in Draws(pops'[orr'.pop1].current.seq,
                            FreshSites(viability_dict',
                                       pops'[orr'.pop1].current.seq)),
              r2 \in Draws(pops'[orr'.pop2].current.seq,
                            FreshSites(viability_dict',
                                       pops'[orr'.pop2].current.seq)) :
              Orr_get_IIs(viability_dict', pops', orr', r1, r2) =
                  [err |-> FALSE, II1 |-> orr'.II1, II2 |-> orr'.II2,
                   dict |-> viability_dict', used |-> 0]

\* C12: in the state an Orr.substitute call leaves, whatever the distance
\* between the lineages, the two get_IIs calls of Orr.get_IIs would return
\* the II1 and II2 that the step recorded (empty when dist <= 1, where the
\* call was skipped), without failing, without drawing, and leaving the
\* Oracle as the step left it.
C12_ShortcutExact == [][C12_ShortcutStep]_vars

\* A call has returned with the lineages one site apart, get_IIs skipped,
\* while the Oracle records an inviable neighbour of a current genotype.
C12_Witness ==
    /\ ~orr.none /\ pc = "idle" /\ orr.n_steps >= 1 /\ orr.dist = 1
    /\ orr.history[orr.n_steps].II1 = EmptyDict
    /\ \E i \in 0..(L - 1) :
          /\ mutate(pops[orr.pop1].current.seq, i) \in DOMAIN viability_dict
          /\ ~viability_dict[mutate(pops[orr.pop1].current.seq, i)]

---------------------------------------------------------------------------
(* C13 *)

\* s with the allele of t at site i (0-indexed) and its own elsewhere.
Introgressed(s, t, i) == [s EXCEPT ![i + 1] = t[i + 1]]

\* The sites at which introgressing t's allele into s gives a sequence that
\* d records inviable, each with t's allele.
InviableIntrogressions(d, s, t) ==
    [i \in {j \in 0..(Len(s) - 1) :
               /\ s[j + 1] # t[j + 1]
               /\ ~d[Introgressed(s, t, j)]} |-> t[i + 1]]

C13_IIsStep ==
    (SubstituteReturns /\ orr'.dist > 1) =>
        /\ \A i \in 0..(L - 1) :
              /\ Introgressed(pops'[orr'.pop1].current.seq,
                              pops'[orr'.pop2].current.seq, i) \in
                     DOMAIN viability_dict'
              /\ Introgressed(pops'[orr'.pop2].current.seq,
                              pops'[orr'.pop1].current.seq, i) \in
                     DOMAIN viability_dict'
        /\ orr'.II1 = InviableIntrogressions(viability_dict',
                          pops'[orr'.pop1].current.seq,
                          pops'[orr'.pop2].current.seq)
        /\ orr'.II2 = InviableIntrogressions(viability_dict',
                          pops'[orr'.pop2].current.seq,
                          pops'[orr'.pop1].current.seq)
        /\ orr'.history[orr'.n_steps].II1 = orr'.II1
        /\ orr'.history[orr'.n_steps].II2 = orr'.II2

C13_Snapshots ==
    ~orr.none =>
        \A j \in DOMAIN orr.history :
            /\ DOMAIN orr.history[j].II1 \subseteq
                   {i - 1 : i \in Differing(orr.history[j].seq1,
                                            orr.history[j].seq2)}
            /\ DOMAIN orr.history[j].II2 \subseteq
                   {i - 1 : i \in Differing(orr.history[j].seq1,
                                            orr.history[j].seq2)}
            /\ Cardinality(DOMAIN orr.history[j].II1) <= orr.history[j].dist12
            /\ Cardinality(DOMAIN orr.history[j].II2) <= orr.history[j].dist12
            /\ \A i \in DOMAIN orr.history[j].II1 :
                  orr.history[j].II1[i] = orr.history[j].seq2[i + 1]
            /\ \A i \in DOMAIN orr.history[j].II2 :
                  orr.history[j].II2[i] = orr.history[j].seq1[i + 1]

\* C13: the get_IIs calls of an Orr.substitute step (viable genotypes of one
\* p and one L, more than one site apart) return, for each direction, the
\* mapping whose keys are exactly the diverged sites at which the recipient
\* with the donor's allele is recorded inviable in the Oracle, each mapped to
\* the donor's allele; in every snapshot the keys of II1 and II2 are diverged
\* sites, at most dist12 of them, II1 carrying alleles of seq2 and II2
\* alleles of seq1.
C13_GetIIs == [][C13_IIsStep]_vars /\ []C13_Snapshots

\* A snapshot two sites apart, both lineages having moved, with an
\* incompatible introgression whose allele differs in the two directions.
C13_Witness ==
    /\ ~orr.none /\ pc = "idle" /\ orr.n_steps >= 2
    /\ orr.history[orr.n_steps].dist12 = 2
    /\ orr.history[orr.n_steps].dist01 = 1
    /\ DOMAIN orr.history[orr.n_steps].II1 # {}
    /\ orr.history[orr.n_steps].II1 # orr.history[orr.n_steps].II2

---------------------------------------------------------------------------
(* C14 *)

\* The number of positions at which two sequences differ.
Hamming(s, t) == Cardinality(Differing(s, t))

\* C14: in every snapshot of the Orr history, dist01 and dist02 are the
\* Hamming distances of seq1 and seq2 to the ancestor, dist12 is the Hamming
\* distance between seq1 and seq2, and dist12 <= dist01 + dist02 <= the step
\* number of the snapshot.
C14_Distances ==
    ~orr.none =>
        \A j \in DOMAIN orr.history :
            /\ Len(orr.history[j].seq1) = L /\ Len(orr.history[j].seq2) = L
            /\ orr.history[j].dist01 =
                   Hamming(orr.history[j].seq1, pops[orr.pop1].ancestor.seq)
            /\ orr.history[j].dist02 =
                   Hamming(orr.history[j].seq2, pops[orr.pop2].ancestor.seq)
            /\ orr.history[j].dist12 =
                   Hamming(orr.history[j].seq1, orr.history[j].seq2)
            /\ orr.history[j].dist12 <=
                   orr.history[j].dist01 + orr.history[j].dist02
            /\ orr.history[j].dist01 + orr.history[j].dist02 <= j
            /\ pops[orr.pop1].ancestor.seq = orr.history[0].seq1
            /\ pops[orr.pop2].ancestor.seq = orr.history[0].seq1

\* A lineage has moved away from the ancestor and back: the distances of
\* the last snapshot are below its step number.
C14_Witness ==
    /\ ~orr.none /\ pc = "idle" /\ orr.n_steps = 2
    /\ orr.history[1].dist01 = 1 /\ orr.history[1].dist12 = 1
    /\ orr.history[2].dist01 = 0 /\ orr.history[2].dist12 = 0
    /\ orr.history[2].seq1 # orr.history[1].seq1

---------------------------------------------------------------------------
(* C15 *)

\* The single-site mutants of s that d records viable.
ViableNeighbors(d, s) ==
    {i \in 0..(Len(s) - 1) :
        mutate(s, i) \in DOMAIN d /\ d[mutate(s, i)]}

\* C15 as claimed: for every sequence of the robustness cache the cached nu
\* is the number of its single-site mutants that the Oracle now records
\* viable, over L (so it lies in [0, 1]), and every nu of a history snapshot
\* is that of its sequence under the Oracle as it now is.
C15_CacheConsistent ==
    /\ \A s \in DOMAIN nu_dict :
          /\ nu_dict[s] =
                 <<Cardinality(ViableNeighbors(viability_dict, s)), Len(s)>>
          /\ nu_dict[s][1] \in 0..nu_dict[s][2]
    /\ ~orr.none =>
          \A j \in DOMAIN orr.history :
              /\ orr.history[j].nu1 =
                     <<Cardinality(ViableNeighbors(viability_dict,
                                                   orr.history[j].seq1)), L>>
              /\ orr.history[j].nu2 =
                     <<Cardinality(ViableNeighbors(viability_dict,
                                                   orr.history[j].seq2)), L>>

---------------------------------------------------------------------------
(* C16 *)

C16_MakeViableStep ==
    \A s \in SeqsOfLen(L), p \in PVals, r \in RandVals :
        MakeViable(s, p, r) =>
            /\ g'.seq = s /\ g'.viable /\ g'.p = p
            /\ DOMAIN viability_dict' = DOMAIN viability_dict \cup {s}
            /\ viability_dict'[s]
            /\ \A t \in DOMAIN viability_dict :
                  t # s => viability_dict'[t] = viability_dict[t]
            /\ \A t \in DOMAIN viability_dict :
                  viability_dict'[t] # viability_dict[t] =>
                      ~viability_dict[t] /\ viability_dict'[t]
            /\ nu_dict' = nu_dict

\* C16: a call make_viable(s, p), whether s was unseen, recorded viable or
\* recorded inviable, returns a genotype of s with viable = true and leaves
\* the Oracle recording s viable; the Oracle gains no key but s, every other
\* entry keeps its value, and the only change of a value is from inviable to
\* viable.
C16_MakeViableFrame == [][C16_MakeViableStep]_vars

\* A viable genotype with p = 0 whose lookup drew: the draw gave inviable
\* and make_viable overrode it, another sequence staying recorded inviable.
C16_Witness ==
    /\ ~g.none /\ g.viable /\ g.p = 0 /\ rnd_used.viab = 1
    /\ viability_dict[g.seq]
    /\ \E t \in DOMAIN viability_dict : t # g.seq /\ ~viability_dict[t]

---------------------------------------------------------------------------
(* C17 *)

\* C17: once an Orr exists (its ancestor passed the assertion of
\* Population.__init__), in every state, inside the loop of substitute too,
\* the current genotypes of both lineages are viable, as a field and in the
\* Oracle, and have the p of the run and length L; no assertion has failed:
\* the get_IIs calls of Orr.substitute find their preconditions true in both
\* regimes.
C17_NoAssertionFails ==
    ~orr.none =>
        /\ err = "none"
        /\ \A ref \in {orr.pop1, orr.pop2} :
              /\ pops[ref].current.viable
              /\ pops[ref].current.seq \in DOMAIN viability_dict
              /\ viability_dict[pops[ref].current.seq]
              /\ pops[ref].current.p = orr.p
              /\ pops[ref].p = orr.p
              /\ pops[ref].current.L = L
              /\ Len(pops[ref].current.seq) = L
        /\ pops[orr.pop1].current.p = pops[orr.pop2].current.p
        /\ pops[orr.pop1].current.L = pops[orr.pop2].current.L

\* A blind call has returned with the lineages two sites apart, get_IIs
\* having run without error, the Oracle recording an inviable sequence.
C17_Witness ==
    /\ ~orr.none /\ pc = "idle" /\ blind /\ err = "none"
    /\ orr.n_steps = 2 /\ orr.dist = 2 /\ mut.viable
    /\ \E s \in DOMAIN viability_dict : ~viability_dict[s]

---------------------------------------------------------------------------
(* C18 *)

C18_NeighborsKnown ==
    ~orr.none =>
        \A ref \in {orr.pop1, orr.pop2} :
            /\ pops[ref].current.seq \in DOMAIN nu_dict
            /\ \A i \in 0..(L - 1) :
                  mutate(pops[ref].current.seq, i) \in DOMAIN viability_dict

C18_DrawsStep ==
    SubstituteStep =>
        /\ rnd_used'.viab = 0 /\ rnd_used'.IIs = 0
        /\ mut'.seq \in DOMAIN viability_dict
        /\ pc' = "loop" => viability_dict' = viability_dict
        /\ viability_dict' # viability_dict =>
              /\ pops'[ChosenRef(orr, chosen')].current.seq = mut'.seq
              /\ mut'.seq \notin DOMAIN nu_dict
              /\ mut'.seq \in DOMAIN nu_dict'
              /\ DOMAIN viability_dict' \ DOMAIN viability_dict \subseteq
                     {mutate(mut'.seq, i) : i \in 0..(L - 1)}
              /\ rnd_used'.nbrs =
                     Cardinality(DOMAIN viability_dict' \ DOMAIN viability_dict)
        /\ viability_dict' = viability_dict => rnd_used'.nbrs = 0

\* C18: once an Orr exists, every single-site mutant of the current genotype
\* of each lineage is a key of the Oracle (and the current sequence a key of
\* the robustness cache), whenever substitute is entered and in between; so
\* no mutation attempt and no get_IIs lookup of a substitute step draws a
\* viability, and a step adds Oracle entries only when it accepts a genotype
\* whose robustness was not cached: the neighbours of that genotype, one
\* draw each.
C18_NoFreshDraw == []C18_NeighborsKnown /\ [][C18_DrawsStep]_vars

\* A myopic call that retried has moved to a genotype not visited before;
\* its robustness computation drew the one neighbour the Oracle lacked.
C18_Witness ==
    /\ ~orr.none /\ pc = "idle" /\ ~blind /\ attempts >= 2
    /\ orr.n_steps >= 1
    /\ rnd_used = [viab |-> 0, nbrs |-> 1, IIs |-> 0]

---------------------------------------------------------------------------
(* C19 *)

\* The population has moved: two consecutive snapshots differ in seq.
Moved(pop) ==
    \E j \in 1..pop.n_steps : pop.history[j].seq # pop.history[j - 1].seq

C19_ViableNeighbor ==
    ~orr.none =>
        /\ pc = "loop" => ~blind
        /\ \A ref \in {orr.pop1, orr.pop2} :
              ViableNeighbors(viability_dict, pops[ref].current.seq) = {} =>
                  /\ ~Moved(pops[ref])
                  /\ pops[ref].current.seq = pops[ref].ancestor.seq

C19_LoopStep ==
    SubstituteStep =>
        /\ blind' => pc' = "idle"
        /\ (~blind' /\ ViableNeighbors(viability_dict,
                 pops[ChosenRef(orr, chosen')].current.seq) = {}) =>
              /\ pc' = "loop" /\ err' = "none"
              /\ pops' = pops /\ orr' = orr
              /\ viability_dict' = viability_dict

C19_Returns ==
    (pc = "loop" /\ ViableNeighbors(viability_dict,
         pops[ChosenRef(orr, chosen)].current.seq) # {}) ~> (pc = "idle")

\* C19: a lineage that has moved has a viable single-site neighbour, and a
\* lineage without one stands at its ancestor, never having moved; a blind
\* call returns in its one step; a myopic call on a lineage without viable
\* neighbour stays in its loop at every step, changing nothing and raising
\* nothing; and, every site being drawn again and again, a myopic call on a
\* lineage with a viable neighbour returns.
C19_MyopicLiveness ==
    /\ []C19_ViableNeighbor
    /\ [][C19_LoopStep]_vars
    /\ C19_Returns

\* A myopic call on a lineage that had moved before has returned after
\* retries.
C19_Witness ==
    /\ ~orr.none /\ pc = "idle" /\ ~blind /\ attempts >= 2
    /\ pops[ChosenRef(orr, chosen)].n_steps = 2
    /\ pops[ChosenRef(orr, chosen)].history[1].seq #
           pops[ChosenRef(orr, chosen)].history[0].seq

---------------------------------------------------------------------------
(* C20 *)

C20_Counters ==
    ~orr.none =>
        /\ orr.n_steps = pops[orr.pop1].n_steps + pops[orr.pop2].n_steps
        /\ DOMAIN orr.history = 0..orr.n_steps
        /\ orr.history[orr.n_steps] = OrrSnapshot(pops, orr)

C20_OrrHistoryStep ==
    ~orr.none =>
        /\ ~orr'.none
        /\ IF SubstituteReturns
           THEN orr'.n_steps = orr.n_steps + 1
           ELSE orr'.n_steps = orr.n_steps
        /\ \A j \in DOMAIN orr.history :
              /\ j \in DOMAIN orr'.history
              /\ orr'.history[j] = orr.history[j]

\* C20: the n_steps of an Orr is 0 at construction and grows by one in the
\* step in which an Orr.substitute call returns, and in no other; it equals
\* pop1.n_steps + pop2.n_steps; the history has exactly the keys 0..n_steps,
\* the last snapshot describing the state the call left; and no step changes
\* the snapshot stored at an existing key, II1 and II2 included.
C20_OrrHistory == []C20_Counters /\ [][C20_OrrHistoryStep]_vars

\* Two calls have returned, one per lineage; the last snapshot records an
\* incompatible introgression, the one before none.
C20_Witness ==
    /\ ~orr.none /\ pc = "idle" /\ orr.n_steps = 2
    /\ pops[orr.pop1].n_steps = 1 /\ pops[orr.pop2].n_steps = 1
    /\ DOMAIN orr.history[1].II1 = {}
    /\ DOMAIN orr.history[2].II1 # {}

=============================================================================
